---- MODULE Spec2Model ----
(***************************************************************************)
(* A model of old_lol_dl.py: the release manifest decoder (Man.read), the  *)
(* parent arrays it derives, the path walk (file_folder / file_path), the  *)
(* version rendering, the version padding of download and the retry loop   *)
(* of file_download.                                                       *)
(*                                                                         *)
(* Bytes are naturals 0..255, a bytes object is a sequence of them and a   *)
(* str is a sequence of code points.  The buffer is read with a cursor, as *)
(* io.BytesIO does: a read past the end returns the bytes that are left.   *)
(***************************************************************************)
EXTENDS Integers, Sequences, FiniteSets, TLC

\* ------------------------------------------------------------------ bounds

\* The largest folder table and file table of an enumerated manifest.
MaxFolders == 2
MaxFiles == 1
\* The largest retry budget handed to file_download.
MaxRetries == 3
\* The longest enumerated version argument of download, in characters.
MaxVersionLen == 9

\* ----------------------------------------------------------- byte helpers

\* Python's None in folder_parents / file_parents.
None == -1

Min(a, b) == IF a < b THEN a ELSE b

\* buffer.read(n) at cursor pos: at most n bytes, fewer at the end of the buffer.
BufRead(buf, pos, n) == SubSeq(buf, pos + 1, Min(pos + n, Len(buf)))

\* int.from_bytes(bs, byteorder='little'), and struct's '<H', '<I', '<Q'.
RECURSIVE FromLE(_)
FromLE(bs) == IF bs = <<>> THEN 0 ELSE bs[1] + 256 * FromLE(Tail(bs))

\* struct.pack of an unsigned little-endian integer of w bytes.
RECURSIVE ToLE(_, _)
ToLE(v, w) == IF w = 0 THEN <<>> ELSE <<v % 256>> \o ToLE(v \div 256, w - 1)

\* range(start, start + count), and `i in range`
Range(start, count) == [start |-> start, stop |-> start + count]
InRange(i, r) == r.start <= i /\ i < r.stop

\* ------------------------------------------------------------- the records

S_HEADER_size == 12
S_FOLDER_size == 20
S_FILE_size == 44

\* ManHeader(*S_HEADER.unpack_from(bs)) for '< H H I 4s'
ManHeader(bs) ==
    [major_version |-> FromLE(SubSeq(bs, 1, 2)),
     minor_version |-> FromLE(SubSeq(bs, 3, 4)),
     project_name |-> FromLE(SubSeq(bs, 5, 8)),
     release_version |-> SubSeq(bs, 9, 12)]

\* ManFolder(*S_FOLDER.unpack_from(bs)) for '< I I I I I'
ManFolder(bs) ==
    [name |-> FromLE(SubSeq(bs, 1, 4)),
     folders_start |-> FromLE(SubSeq(bs, 5, 8)),
     folders_count |-> FromLE(SubSeq(bs, 9, 12)),
     files_start |-> FromLE(SubSeq(bs, 13, 16)),
     files_count |-> FromLE(SubSeq(bs, 17, 20))]

\* ManFile(*S_FILE.unpack_from(bs)) for '< I 4s 16s I I I Q'
ManFile(bs) ==
    [name |-> FromLE(SubSeq(bs, 1, 4)),
     version |-> SubSeq(bs, 5, 8),
     md5 |-> SubSeq(bs, 9, 24),
     deploy_mode |-> FromLE(SubSeq(bs, 25, 28)),
     size_uncompressed |-> FromLE(SubSeq(bs, 29, 32)),
     size_compressed |-> FromLE(SubSeq(bs, 33, 36)),
     date |-> FromLE(SubSeq(bs, 37, 44))]

\* ManFolder.folders() and ManFolder.files()
FolderFolders(f) == Range(f.folders_start, f.folders_count)
FolderFiles(f) == Range(f.files_start, f.files_count)

\* [ Rec.read(buffer) for _ in range(0, count) ]: the records read so far and
\* the cursor, or struct.error at the first record the buffer is too short for.
RECURSIVE ReadRecords(_, _, _, _, _)
ReadRecords(buf, pos, count, size, acc) ==
    IF count = 0 THEN [ok |-> TRUE, items |-> acc, pos |-> pos]
    ELSE IF Len(BufRead(buf, pos, size)) < size
         THEN [ok |-> FALSE, items |-> acc, pos |-> pos]
         ELSE ReadRecords(buf, pos + size, count - 1, size,
                          Append(acc, BufRead(buf, pos, size)))

\* ------------------------------------------------------------------ UTF-8

IsCont(b) == b >= 128 /\ b <= 191

\* The length of the well-formed UTF-8 sequence at the head of bs, 0 when the
\* head is not one (bytes.decode('utf-8') then raises UnicodeDecodeError).
Utf8Len(bs) ==
    LET n == Len(bs)
        b1 == bs[1]
    IN  IF b1 < 128 THEN 1
        ELSE IF b1 >= 194 /\ b1 <= 223
             THEN IF n >= 2 /\ IsCont(bs[2]) THEN 2 ELSE 0
        ELSE IF b1 >= 224 /\ b1 <= 239
             THEN IF n >= 3 /\ IsCont(bs[2]) /\ IsCont(bs[3])
                     /\ (b1 = 224 => bs[2] >= 160)
                     /\ (b1 = 237 => bs[2] <= 159)
                  THEN 3 ELSE 0
        ELSE IF b1 >= 240 /\ b1 <= 244
             THEN IF n >= 4 /\ IsCont(bs[2]) /\ IsCont(bs[3]) /\ IsCont(bs[4])
                     /\ (b1 = 240 => bs[2] >= 144)
                     /\ (b1 = 244 => bs[2] <= 143)
                  THEN 4 ELSE 0
        ELSE 0

\* The code point of the well-formed sequence of k bytes at the head of bs.
Utf8Point(bs, k) ==
    IF k = 1 THEN bs[1]
    ELSE IF k = 2 THEN (bs[1] - 192) * 64 + (bs[2] - 128)
    ELSE IF k = 3 THEN (bs[1] - 224) * 4096 + (bs[2] - 128) * 64 + (bs[3] - 128)
    ELSE (bs[1] - 240) * 262144 + (bs[2] - 128) * 4096
         + (bs[3] - 128) * 64 + (bs[4] - 128)

\* bytes.decode('utf-8'): the code points, or not ok on a malformed sequence.
RECURSIVE Utf8Decode(_, _)
Utf8Decode(bs, acc) ==
    IF bs = <<>> THEN [ok |-> TRUE, str |-> acc]
    ELSE LET k == Utf8Len(bs)
         IN  IF k = 0 THEN [ok |-> FALSE, str |-> acc]
             ELSE Utf8Decode(SubSeq(bs, k + 1, Len(bs)),
                             Append(acc, Utf8Point(bs, k)))

\* str.split(sep) for a separator of one character: the pieces between the
\* separators, one more than there are separators.
RECURSIVE SplitRec(_, _, _, _)
SplitRec(s, sep, cur, acc) ==
    IF s = <<>> THEN Append(acc, cur)
    ELSE IF s[1] = sep THEN SplitRec(Tail(s), sep, <<>>, Append(acc, cur))
    ELSE SplitRec(Tail(s), sep, Append(cur, s[1]), acc)

\* The empty pieces dropped, as str.split() without a separator does.
StrSplit_DropEmpty(s, sep) ==
    SelectSeq(SplitRec(s, sep, <<>>, <<>>), LAMBDA piece : piece # <<>>)

StrSplit(s, sep) == SplitRec(s, sep, <<>>, <<>>)

\* sep.join(parts)
RECURSIVE StrJoin(_, _)
StrJoin(sep, parts) ==
    IF Len(parts) = 0 THEN <<>>
    ELSE IF Len(parts) = 1 THEN parts[1]
    ELSE parts[1] \o <<sep>> \o StrJoin(sep, Tail(parts))

\* '\0', '.', '/'
NUL == 0
DOT == 46
SLASH == 47

\* --------------------------------------------------------------- Man.read

\* Python indexes from 0, a TLA+ sequence from 1.
At(seq, i) == seq[i + 1]

\* SetRange with the first index of the range skipped.
SetRange_SkipFirst(arr, sub, stop, parent) ==
    IF sub >= stop THEN [ok |-> TRUE, arr |-> arr]
    ELSE IF stop > Len(arr) THEN [ok |-> FALSE, arr |-> arr]
    ELSE [ok |-> TRUE,
          arr |-> [i \in 1..Len(arr) |->
                     IF sub + 1 < i /\ i <= stop THEN parent ELSE arr[i]]]

\* SetRange with the assignment made once, after the loop, for its last index.
SetRange_Last(arr, sub, stop, parent) ==
    IF sub >= stop THEN [ok |-> TRUE, arr |-> arr]
    ELSE IF stop > Len(arr) THEN [ok |-> FALSE, arr |-> arr]
    ELSE [ok |-> TRUE, arr |-> [arr EXCEPT ![stop] = parent]]

\* SetRange that leaves an entry alone once it has a parent.
SetRange_KeepFirst(arr, sub, stop, parent) ==
    IF sub >= stop THEN [ok |-> TRUE, arr |-> arr]
    ELSE IF stop > Len(arr) THEN [ok |-> FALSE, arr |-> arr]
    ELSE [ok |-> TRUE,
          arr |-> [i \in 1..Len(arr) |->
                     IF sub < i /\ i <= stop /\ arr[i] = None THEN parent
                     ELSE arr[i]]]

\* SetRange that passes over the indices arr does not have.
SetRange_Clip(arr, sub, stop, parent) ==
    [ok |-> TRUE,
     arr |-> [i \in 1..Len(arr) |->
                IF sub < i /\ i <= stop THEN parent ELSE arr[i]]]

\* for sub in range(sub, stop): arr[sub] = parent, in ascending order; not ok
\* at the first sub that is no index of arr (IndexError).
RECURSIVE SetRange(_, _, _, _)
SetRange(arr, sub, stop, parent) ==
    IF sub >= stop THEN [ok |-> TRUE, arr |-> arr]
    ELSE IF sub >= Len(arr) THEN [ok |-> FALSE, arr |-> arr]
    ELSE SetRange([arr EXCEPT ![sub + 1] = parent], sub + 1, stop, parent)

\* The loop of Man.read over enumerate(folders), from folder `parent` on: each
\* folder writes itself over whatever an earlier folder wrote.
RECURSIVE ResolveParents(_, _, _, _)
ResolveParents(folders, parent, folder_parents, file_parents) ==
    IF parent >= Len(folders)
    THEN [ok |-> TRUE, folder_parents |-> folder_parents,
          file_parents |-> file_parents]
    ELSE LET folder == At(folders, parent)
             a == SetRange(folder_parents, FolderFolders(folder).start,
                           FolderFolders(folder).stop, parent)
         IN  IF ~a.ok
             THEN [ok |-> FALSE, folder_parents |-> a.arr,
                   file_parents |-> file_parents]
             ELSE LET b == SetRange(file_parents, FolderFiles(folder).start,
                                    FolderFiles(folder).stop, parent)
                  IN  IF ~b.ok
                      THEN [ok |-> FALSE, folder_parents |-> a.arr,
                            file_parents |-> b.arr]
                      ELSE ResolveParents(folders, parent + 1, a.arr, b.arr)

\* b"RLSM"
MAGIC == <<82, 76, 83, 77>>

\* The assertion left out.
MagicOk_Skipped(magic) == TRUE

\* assert(magic == b"RLSM")
MagicOk(magic) == magic = MAGIC

\* The value of a Man that was never built.
NoMan ==
    [header |-> [major_version |-> 0, minor_version |-> 0, project_name |-> 0,
                 release_version |-> <<>>],
     folders |-> <<>>, folder_parents |-> <<>>,
     files |-> <<>>, file_parents |-> <<>>, names |-> <<>>]

\* How far Man.read got: nothing is parsed before the magic is accepted.
ReadFail(error, stage) ==
    [ok |-> FALSE, error |-> error, stage |-> stage, man |-> NoMan]

\* Man.read(buffer): the Man, or the exception that ends it.  stage names the
\* last statement reached.
ManRead(buf) ==
    LET magic == BufRead(buf, 0, 4)
    IN  IF ~MagicOk(magic) THEN ReadFail("AssertionError", "magic")
    ELSE
    LET hb == BufRead(buf, 4, S_HEADER_size)
    IN  IF Len(hb) < S_HEADER_size THEN ReadFail("struct.error", "header")
    ELSE
    LET p0 == 4 + S_HEADER_size
        folder_count == FromLE(BufRead(buf, p0, 4))
        fo == ReadRecords(buf, p0 + 4, folder_count, S_FOLDER_size, <<>>)
    IN  IF ~fo.ok THEN ReadFail("struct.error", "folders")
    ELSE
    LET file_count == FromLE(BufRead(buf, fo.pos, 4))
        fi == ReadRecords(buf, fo.pos + 4, file_count, S_FILE_size, <<>>)
    IN  IF ~fi.ok THEN ReadFail("struct.error", "files")
    ELSE
    LET name_count == FromLE(BufRead(buf, fi.pos, 4))
        name_data_length == FromLE(BufRead(buf, fi.pos + 4, 4))
        dec == Utf8Decode(BufRead(buf, fi.pos + 8, name_data_length), <<>>)
    IN  IF ~dec.ok THEN ReadFail("UnicodeDecodeError", "names")
    ELSE
    LET folders == [i \in 1..Len(fo.items) |-> ManFolder(fo.items[i])]
        files == [i \in 1..Len(fi.items) |-> ManFile(fi.items[i])]
        names == StrSplit(dec.str, NUL)
        res == ResolveParents(folders, 0,
                              [i \in 1..folder_count |-> None],
                              [i \in 1..file_count |-> None])
    IN  IF ~res.ok THEN ReadFail("IndexError", "parents")
        ELSE [ok |-> TRUE, error |-> "", stage |-> "return",
              man |-> [header |-> ManHeader(hb), folders |-> folders,
                       folder_parents |-> res.folder_parents,
                       files |-> files, file_parents |-> res.file_parents,
                       names |-> names]]

\* ------------------------------------------------- the manifests decoded

\* The layout Man.read reads, written out: a record of each kind.
EncodeHeader(h) ==
    ToLE(h.major_version, 2) \o ToLE(h.minor_version, 2)
    \o ToLE(h.project_name, 4) \o h.release_version

EncodeFolder(f) ==
    ToLE(f.name, 4) \o ToLE(f.folders_start, 4) \o ToLE(f.folders_count, 4)
    \o ToLE(f.files_start, 4) \o ToLE(f.files_count, 4)

EncodeFile(f) ==
    ToLE(f.name, 4) \o f.version \o f.md5 \o ToLE(f.deploy_mode, 4)
    \o ToLE(f.size_uncompressed, 4) \o ToLE(f.size_compressed, 4)
    \o ToLE(f.date, 8)

RECURSIVE Flatten(_)
Flatten(ss) == IF ss = <<>> THEN <<>> ELSE ss[1] \o Flatten(Tail(ss))

\* names joined by NUL (ASCII names: one byte per code point).
JoinNul(names) == StrJoin(NUL, names)

\* A whole manifest buffer: magic, header, the two tables, the name blob.
EncodeMan(magic, header, folders, files, name_count, name_data) ==
    magic \o EncodeHeader(header)
    \o ToLE(Len(folders), 4)
    \o Flatten([i \in 1..Len(folders) |-> EncodeFolder(folders[i])])
    \o ToLE(Len(files), 4)
    \o Flatten([i \in 1..Len(files) |-> EncodeFile(files[i])])
    \o ToLE(name_count, 4) \o ToLE(Len(name_data), 4) \o name_data

Header0 ==
    [major_version |-> 1, minor_version |-> 0, project_name |-> 0,
     release_version |-> <<1, 2, 3, 4>>]

Folder(name, fs, fc, ls, lc) ==
    [name |-> name, folders_start |-> fs, folders_count |-> fc,
     files_start |-> ls, files_count |-> lc]

File(name) ==
    [name |-> name, version |-> <<1, 0, 0, 0>>,
     md5 |-> [i \in 1..16 |-> 0], deploy_mode |-> 0,
     size_uncompressed |-> 1, size_compressed |-> 1, date |-> 0]

\* Folder i is named "" (the root), "A", "B", ...; file j is named "f", "g", ...
FolderName(i) == IF i = 0 THEN <<>> ELSE <<64 + i>>
FileName(j) == <<102 + j>>

\* The child ranges a folder record of an enumerated manifest may declare, in
\* a table of n entries: empty, or one or two entries from any start up to n
\* (the ranges reaching n or beyond lie outside the table).
FolderRanges(n) == {<<0, 0>>} \cup {<<s, c>> : s \in 0..n, c \in 1..2}
FileRanges(m) == {<<0, 0>>} \cup {<<s, 1>> : s \in 0..m}

\* The manifest of n folders and m files whose folder i declares the folder
\* range fr[i] and the file range lr[i].
EnumBuffer(n, m, fr, lr) ==
    EncodeMan(MAGIC, Header0,
              [i \in 1..n |-> Folder(i - 1, fr[i][1], fr[i][2],
                                     lr[i][1], lr[i][2])],
              [j \in 1..m |-> File(n + j - 1)],
              n + m,
              JoinNul([k \in 1..(n + m) |->
                         IF k <= n THEN FolderName(k - 1)
                         ELSE FileName(k - n - 1)]))

\* root -> A -> B with f.txt in B, the root's name empty.
TreeFolders ==
    <<Folder(0, 1, 1, 0, 0), Folder(1, 2, 1, 0, 0), Folder(2, 0, 0, 0, 1)>>
TreeNames == <<0, 65, 0, 66, 0, 102, 46, 116, 120, 116>>
TreeBuffer == EncodeMan(MAGIC, Header0, TreeFolders, <<File(3)>>, 4, TreeNames)

\* Folders 0, 1 and 2 all declare folder 3 and file 0 as theirs; folder 1
\* also declares folder 2.
OverlapFolders ==
    <<Folder(0, 1, 3, 0, 1), Folder(1, 2, 2, 0, 1), Folder(2, 3, 1, 0, 2),
      Folder(3, 0, 0, 0, 0)>>
OverlapNames == <<0, 65, 0, 66, 0, 67, 0, 102, 0, 103>>
OverlapBuffer ==
    EncodeMan(MAGIC, Header0, OverlapFolders, <<File(4), File(5)>>, 6,
              OverlapNames)

\* The tree again, its file named by an index the name table does not have.
BadNameBuffer ==
    EncodeMan(MAGIC, Header0, TreeFolders, <<File(9)>>, 4, TreeNames)

\* The tree again, its header naming the project by an index the name table
\* does not have.
BadProjectBuffer ==
    EncodeMan(MAGIC, [Header0 EXCEPT !.project_name = 9], TreeFolders,
              <<File(3)>>, 4, TreeNames)

\* Four bytes that are not b"RLSM": one byte off, another case, reversed,
\* zeros, and the magic shifted by one.
BadMagics ==
    {<<82, 76, 83, 78>>, <<114, 108, 115, 109>>, <<77, 83, 76, 82>>,
     <<0, 0, 0, 0>>, <<76, 83, 77, 82>>, <<83, 76, 83, 77>>}

\* Buffers that do not begin with the magic: a well-formed rest after four
\* other bytes, the rest alone, and every buffer of fewer than four bytes of
\* the magic.
BadMagicBuffers ==
    { bad \o SubSeq(b, 5, Len(b)) : bad \in BadMagics,
                                    b \in {TreeBuffer, OverlapBuffer, MAGIC} }
    \cup { SubSeq(TreeBuffer, 5, Len(TreeBuffer)) }
    \cup { SubSeq(MAGIC, 1, k) : k \in 0..3 }

\* Every prefix of a well-formed buffer: the truncated inputs.
TruncatedBuffers == { SubSeq(TreeBuffer, 1, k) : k \in 4..Len(TreeBuffer) }

\* root -> "\u00e9" holding the file "\u20ac.\U0001f600": names of two,
\* three and four bytes a character.
Utf8NamesBuffer ==
    EncodeMan(MAGIC, Header0,
              <<Folder(0, 1, 1, 0, 0), Folder(1, 0, 0, 0, 1)>>, <<File(2)>>, 3,
              <<0, 195, 169, 0, 226, 130, 172, 46, 240, 159, 152, 128>>)

\* The buffers decoded besides the enumerated ones.
Buffers ==
    {TreeBuffer, OverlapBuffer, BadNameBuffer, Utf8NamesBuffer}
    \cup BadMagicBuffers
    \cup TruncatedBuffers

\* ------------------------------------------------------------------ state

VARIABLES
    buffer,        \* the bytes handed to Man.read
    pc,            \* where the caller is
    man,           \* the Man that Man.read returned
    error,         \* the exception that ended Man.read or file_path
    stage,         \* the last statement Man.read reached
    file_index,    \* the argument of file_path
    folder_index,  \* file_folder's cursor
    name,          \* file_folder's accumulator
    steps,         \* iterations of file_folder's loop so far
    path,          \* what file_path returned
    version,       \* download's version argument
    url_version,   \* the version download puts in the manifest URL
    rendered,      \* what release_version / file_version returned
    endpoint,      \* how the CDN answers the GETs of the file
    retries0,      \* file_download's retries argument
    retries,       \* file_download's retries variable
    attempts,      \* the GETs file_download has issued
    outcome,       \* the error of the (path, error) file_download returned
    disk,          \* what is at the destination path
    made,          \* the directory file_download called os.makedirs with
    failures,      \* the exceptions the inner except caught, in order
    threads,       \* download's threads argument
    dl_retries,    \* download's retries argument
    scen,          \* per file: what is on disk before, how CDN and disk answer
    fs,            \* per file: what is at its destination path
    verified,      \* the file indices file_verify was called with, in order
    worklist,      \* download's missing_files
    taken,         \* how many entries of missing_files the pool handed out
    worker,        \* per pool thread: the file index it runs fetch for
    task,          \* per file: where its file_download call is
    results,       \* the file indices whose fetch returned, in that order
    count          \* download's count

walkVars == <<file_index, folder_index, name, steps, path>>
versionVars == <<version, url_version, rendered>>
fetchVars ==
    <<endpoint, retries0, retries, attempts, outcome, disk, made, failures>>
syncVars ==
    <<threads, dl_retries, scen, fs, verified, worklist, taken, worker, task,
      results, count>>

vars ==
    <<buffer, pc, man, error, stage, file_index, folder_index, name, steps,
      path, version, url_version, rendered, endpoint, retries0, retries,
      attempts, outcome, disk, made, failures, threads, dl_retries, scen, fs, verified,
      worklist, taken, worker, task, results, count>>

\* The variables of the walk, of the versions and of file_download before
\* any of them ran.
WalkIdle ==
    /\ file_index = None
    /\ folder_index = None
    /\ name = <<>>
    /\ steps = 0
    /\ path = <<>>

VersionIdle ==
    /\ version = <<>>
    /\ url_version = <<>>
    /\ rendered = <<>>

FetchIdle ==
    /\ endpoint = "ok"
    /\ retries0 = 0
    /\ retries = 0
    /\ attempts = 0
    /\ outcome = "pending"
    /\ disk = "absent"
    /\ made = <<>>
    /\ failures = <<>>

SyncIdle ==
    /\ threads = 0
    /\ dl_retries = 0
    /\ scen = <<>>
    /\ fs = <<>>
    /\ verified = <<>>
    /\ worklist = <<>>
    /\ taken = 0
    /\ worker = <<>>
    /\ task = <<>>
    /\ results = <<>>
    /\ count = 0

Init ==
    \* Every manifest of up to MaxFolders folders and MaxFiles files whose
    \* records declare any of the ranges above (well-formed trees, overlapping
    \* ranges, ranges that leave entries out, ranges that include folder 0 or
    \* the folder itself, ranges outside the tables), and the buffers above.
    /\ \/ \E n \in 0..MaxFolders, m \in 0..MaxFiles :
            \E fr \in [1..n -> FolderRanges(n)], lr \in [1..n -> FileRanges(m)] :
                buffer = EnumBuffer(n, m, fr, lr)
       \/ buffer \in Buffers
    /\ pc = "start"
    /\ man = NoMan
    /\ error = ""
    /\ stage = ""
    /\ WalkIdle
    /\ VersionIdle
    /\ FetchIdle
    /\ SyncIdle

\* man = Man.read(io.BytesIO(man_data))
Read ==
    /\ pc = "start"
    /\ \E r \in {ManRead(buffer)} :
           /\ man' = r.man
           /\ error' = r.error
           /\ stage' = r.stage
           /\ pc' = IF r.ok THEN "ready" ELSE "failed"
    /\ UNCHANGED <<buffer, walkVars, versionVars, fetchVars, syncVars>>

\* The folder's name put after what was accumulated.
Prepend_After(folder_name, acc) == acc \o folder_name \o <<SLASH>>

\* name = f'{self.names[self.folders[folder_index].name]}/{name}'
Prepend(folder_name, acc) == folder_name \o <<SLASH>> \o acc

\* file_path(file_index) is called, for an index of file_range(): file_folder
\* starts at the file's parent with an empty name.
FilePathCall ==
    /\ pc \in {"ready", "returned"}
    /\ \E i \in 0..(Len(man.files) - 1) :
           /\ file_index' = i
           /\ folder_index' = At(man.file_parents, i)
    /\ name' = <<>>
    /\ steps' = 0
    /\ path' = <<>>
    /\ pc' = "file_folder"
    /\ UNCHANGED <<buffer, man, error, stage, versionVars, fetchVars, syncVars>>

\* One iteration of file_folder's loop, while folder_index != None.  A walk is
\* followed for one iteration more than there are folders: by then it has
\* been at some folder twice and, every iteration depending on folder_index
\* alone, goes round for ever.
FileFolderLoop ==
    /\ pc = "file_folder"
    /\ folder_index # None
    /\ steps <= Len(man.folders)
    /\ LET n == At(man.folders, folder_index).name
       IN  IF n < Len(man.names)
           THEN /\ name' = Prepend(At(man.names, n), name)
                /\ folder_index' = At(man.folder_parents, folder_index)
                /\ steps' = steps + 1
                /\ UNCHANGED <<pc, error>>
           ELSE /\ pc' = "raised"
                /\ error' = "IndexError"
                /\ UNCHANGED <<name, folder_index, steps>>
    /\ UNCHANGED <<buffer, man, stage, file_index, path, versionVars, fetchVars,
                   syncVars>>

\* file_folder returns name once folder_index is None, and file_path appends
\* file_name(file_index) to it.
FilePathReturn ==
    /\ pc = "file_folder"
    /\ folder_index = None
    /\ LET n == At(man.files, file_index).name
       IN  IF n < Len(man.names)
           THEN /\ path' = name \o At(man.names, n)
                /\ pc' = "returned"
                /\ UNCHANGED error
           ELSE /\ pc' = "raised"
                /\ error' = "IndexError"
                /\ UNCHANGED path
    /\ UNCHANGED <<buffer, man, stage, file_index, folder_index, name, steps,
                   versionVars, fetchVars, syncVars>>

Next ==
    \/ Read
    \/ FilePathCall
    \/ FileFolderLoop
    \/ FilePathReturn


Spec == Init /\ [][Next]_vars

\* ------------------------------------------------------------ versions

\* reversed(bs) left out.
Reversed_Id(bs) == bs

\* reversed(bs)
Reversed(bs) == [i \in 1..Len(bs) |-> bs[Len(bs) - i + 1]]

\* str(n) for an int n >= 0, and for any int.
RECURSIVE DecStr(_)
DecStr(n) == IF n < 10 THEN <<48 + n>> ELSE Append(DecStr(n \div 10), 48 + (n % 10))
IntStr(v) == IF v < 0 THEN <<45>> \o DecStr(0 - v) ELSE DecStr(v)

\* ".".join(str(x) for x in reversed(bs))
VersionString(bs) ==
    StrJoin(DOT, [i \in 1..Len(bs) |-> IntStr(Reversed(bs)[i])])

\* Man.release_version and Man.file_version
ReleaseVersion(m) == VersionString(m.header.release_version)
FileVersion(m, i) == VersionString(At(m.files, i).version)

\* int(x) for a str x: white space around it is dropped, a sign may lead, and
\* the rest is decimal digits, single underscores allowed between them; not
\* ok (ValueError) for anything else.
IsSpace(c) == c \in {9, 10, 11, 12, 13, 32}
IsDigit(c) == c >= 48 /\ c <= 57

RECURSIVE LStrip(_)
LStrip(x) == IF x # <<>> /\ IsSpace(x[1]) THEN LStrip(Tail(x)) ELSE x
RECURSIVE RStrip(_)
RStrip(x) ==
    IF x # <<>> /\ IsSpace(x[Len(x)]) THEN RStrip(SubSeq(x, 1, Len(x) - 1))
    ELSE x

RECURSIVE DigitsValue(_, _)
DigitsValue(d, acc) ==
    IF d = <<>> THEN acc
    ELSE IF d[1] = 95 THEN DigitsValue(Tail(d), acc)
    ELSE DigitsValue(Tail(d), 10 * acc + (d[1] - 48))

IntParse(x) ==
    LET t == RStrip(LStrip(x))
        signed == t # <<>> /\ t[1] \in {43, 45}
        d == IF signed THEN Tail(t) ELSE t
        wellFormed ==
            /\ d # <<>>
            /\ IsDigit(d[1])
            /\ IsDigit(d[Len(d)])
            /\ \A i \in 1..Len(d) :
                   \/ IsDigit(d[i])
                   \/ d[i] = 95 /\ IsDigit(d[i - 1]) /\ IsDigit(d[i + 1])
    IN  IF ~wellFormed THEN [ok |-> FALSE, val |-> 0]
        ELSE [ok |-> TRUE,
              val |-> IF signed /\ t[1] = 45 THEN 0 - DigitsValue(d, 0)
                      ELSE DigitsValue(d, 0)]

\* [ x ] * k: the empty list for k <= 0.
ListTimes(x, k) == [i \in 1..k |-> x]

\* The first three statements of download: the version split at the dots,
\* every component through str(int(x)), "0" components put in front up to
\* four, the whole joined by dots.  Not ok when an int(x) raises ValueError.
PadVersion(v) ==
    LET parts == StrSplit(v, DOT)
        ints == [i \in 1..Len(parts) |-> IntParse(parts[i])]
    IN  IF \E i \in 1..Len(parts) : ~ints[i].ok
        THEN [ok |-> FALSE, version |-> <<>>]
        ELSE [ok |-> TRUE,
              version |->
                  StrJoin(DOT, ListTimes(<<48>>, 4 - Len(parts))
                               \o [i \in 1..Len(parts) |-> IntStr(ints[i].val)])]

\* The bytes a version field is drawn from, four at a time.
VersionBytes == {0, 1, 2, 9, 10, 255}

\* A manifest of one folder and one file with these two version fields.
VersionBuffer(release, file) ==
    EncodeMan(MAGIC, [Header0 EXCEPT !.release_version = release],
              <<Folder(0, 0, 0, 0, 1)>>,
              <<[File(1) EXCEPT !.version = file]>>,
              2, <<NUL, 102>>)

\* The characters of the enumerated version arguments: '0', '1', '.'
VersionChars == {48, 49, DOT}

\* Version arguments beside the enumerated ones: "0.8.0.1", "1.2.3.4.5",
\* " 1.2", "+1.02", "-1", "1_0.2", "x.1", "12", "0.0.0.256".
VersionExamples ==
    {<<48, 46, 56, 46, 48, 46, 49>>, <<49, 46, 50, 46, 51, 46, 52, 46, 53>>,
     <<32, 49, 46, 50>>, <<43, 49, 46, 48, 50>>, <<45, 49>>,
     <<49, 95, 48, 46, 50>>, <<120, 46, 49>>, <<49, 50>>,
     <<48, 46, 48, 46, 48, 46, 50, 53, 54>>}

InitVersion ==
    /\ \/ /\ pc = "render"
          /\ \E r \in [1..4 -> VersionBytes] :
                 \E f \in {<<1, 0, 0, 0>>, r} :
                     buffer = VersionBuffer(r, f)
          /\ version = <<>>
       \/ /\ pc = "download"
          /\ buffer = VersionBuffer(<<1, 2, 3, 4>>, <<1, 0, 0, 0>>)
          /\ \/ \E k \in 0..MaxVersionLen : version \in [1..k -> VersionChars]
             \/ version \in VersionExamples
    /\ man = ManRead(buffer).man
    /\ error = ""
    /\ stage = "return"
    /\ url_version = <<>>
    /\ rendered = <<>>
    /\ WalkIdle
    /\ FetchIdle
    /\ SyncIdle

\* man.release_version()
CallReleaseVersion ==
    /\ pc = "render"
    /\ rendered' = ReleaseVersion(man)
    /\ pc' = "release_version"
    /\ UNCHANGED <<buffer, man, error, stage, version, url_version, walkVars,
                   fetchVars, syncVars>>

\* man.file_version(file_index), as file_url calls it
CallFileVersion ==
    /\ pc = "render"
    /\ \E i \in 0..(Len(man.files) - 1) :
           /\ file_index' = i
           /\ rendered' = FileVersion(man, i)
    /\ pc' = "file_version"
    /\ UNCHANGED <<buffer, man, error, stage, version, url_version,
                   folder_index, name, steps, path, fetchVars, syncVars>>

\* download(cdn, project, version, output) up to the manifest URL
DownloadVersion ==
    /\ pc = "download"
    /\ \E r \in {PadVersion(version)} :
           IF r.ok
           THEN /\ url_version' = r.version
                /\ pc' = "url"
                /\ UNCHANGED error
           ELSE /\ error' = "ValueError"
                /\ pc' = "raised"
                /\ UNCHANGED url_version
    /\ UNCHANGED <<buffer, man, stage, version, rendered, walkVars, fetchVars,
                   syncVars>>

NextVersion ==
    \/ CallReleaseVersion
    \/ CallFileVersion
    \/ DownloadVersion

SpecVersion == InitVersion /\ [][NextVersion]_vars

\* ------------------------------------------------------- file_download

\* file_folder's loop from folder_index on, for a Man whose parent links end
\* at None: the name, or not ok when a name index is none of names.
RECURSIVE FileFolderFrom(_, _, _)
FileFolderFrom(m, fi, acc) ==
    IF fi = None THEN [ok |-> TRUE, name |-> acc]
    ELSE IF At(m.folders, fi).name >= Len(m.names)
         THEN [ok |-> FALSE, name |-> acc]
         ELSE FileFolderFrom(m, At(m.folder_parents, fi),
                             Prepend(At(m.names, At(m.folders, fi).name), acc))

\* The folder part left out of the path.
FilePath_NameOnly(m, i) ==
    IF At(m.files, i).name >= Len(m.names)
    THEN [ok |-> FALSE, path |-> <<>>]
    ELSE [ok |-> TRUE, path |-> At(m.names, At(m.files, i).name)]

\* file_path(i) = file_folder(i) + file_name(i)
FilePath(m, i) ==
    LET ff == FileFolderFrom(m, At(m.file_parents, i), <<>>)
    IN  IF ~ff.ok \/ At(m.files, i).name >= Len(m.names)
        THEN [ok |-> FALSE, path |-> <<>>]
        ELSE [ok |-> TRUE, path |-> ff.name \o At(m.names, At(m.files, i).name)]

\* file_folder's loop from folder fi on: it ends at None, raises IndexError
\* at a folder whose name index is none of names, or, having visited more
\* folders than there are, is on a cycle of parent links and never ends.
RECURSIVE FileFolderWalk(_, _, _)
FileFolderWalk(m, fi, fuel) ==
    IF fi = None THEN "ends"
    ELSE IF At(m.folders, fi).name >= Len(m.names) THEN "IndexError"
    ELSE IF fuel = 0 THEN "loops"
    ELSE FileFolderWalk(m, At(m.folder_parents, fi), fuel - 1)

\* How the call file_path(i) ends.
FilePathEnds(m, i) ==
    LET walk == FileFolderWalk(m, At(m.file_parents, i), Len(m.folders))
    IN  IF walk # "ends" THEN walk
        ELSE IF At(m.files, i).name >= Len(m.names) THEN "IndexError"
        ELSE "ends"

\* The out argument: "out"
OUT == <<111, 117, 116>>

\* The test made one failure too early.
RetriesExhausted_Early(r) == r <= 1

\* if not retries
RetriesExhausted(r) == r = 0

\* How the CDN answers: the GET may succeed, the inflate may succeed.
GetMaySucceed == endpoint \in {"ok", "inflate_fails", "flaky"}
GetMayFail == endpoint \in {"get_fails", "flaky"}
InflateMaySucceed == endpoint \in {"ok", "flaky"}
InflateMayFail == endpoint \in {"inflate_fails", "flaky"}

\* Manifests whose files resolve to one path: two files of the root with one
\* name; a root file "A/f" beside the file f of folder A; a file f of the
\* root and a file f of an undeclared folder that is named "" as the root is.
SameNameBuffer ==
    EncodeMan(MAGIC, Header0, <<Folder(0, 0, 0, 0, 2)>>,
              <<File(1), File(1)>>, 2, <<0, 102>>)
SlashBuffer ==
    EncodeMan(MAGIC, Header0,
              <<Folder(0, 1, 1, 0, 1), Folder(1, 0, 0, 1, 1)>>,
              <<File(3), File(2)>>, 4, <<0, 65, 0, 102, 0, 65, 47, 102>>)
OrphanBuffer ==
    EncodeMan(MAGIC, Header0,
              <<Folder(0, 0, 0, 0, 1), Folder(0, 0, 0, 1, 1)>>,
              <<File(1), File(1)>>, 2, <<0, 102>>)

\* A file f in the root and a file f in its folder A.
TwoFoldersBuffer ==
    EncodeMan(MAGIC, Header0,
              <<Folder(0, 1, 1, 0, 1), Folder(1, 0, 0, 1, 1)>>,
              <<File(2), File(2)>>, 3, <<0, 65, 0, 102>>)

\* A root folder named "R" holding f; a file f that no folder declares.
NamedRootBuffer ==
    EncodeMan(MAGIC, Header0, <<Folder(1, 0, 0, 0, 1)>>, <<File(2)>>, 3,
              <<0, 82, 0, 102>>)
UndeclaredFileBuffer ==
    EncodeMan(MAGIC, Header0, <<Folder(0, 0, 0, 0, 0)>>, <<File(1)>>, 2,
              <<0, 102>>)

FetchBuffers ==
    {TreeBuffer, BadNameBuffer, BadProjectBuffer, SameNameBuffer, SlashBuffer,
     OrphanBuffer, TwoFoldersBuffer, NamedRootBuffer, UndeclaredFileBuffer}

\* file_download(file_index, cdn, out, retries) is called for a file of a
\* decoded manifest, with any retry budget up to MaxRetries, against a CDN
\* that always answers well, never answers the GET, always sends a payload
\* that does not inflate, or does any of these from GET to GET.
\* Besides, against a CDN that answers well, for each file of every manifest
\* of two folders and two files whose records declare any of the ranges.
InitFetch ==
    /\ pc = "fd_path"
    /\ \/ /\ buffer \in FetchBuffers
          /\ endpoint \in {"ok", "get_fails", "inflate_fails", "flaky"}
          /\ retries0 \in 0..MaxRetries
          /\ disk \in {"absent", "old"}
       \/ /\ \E fr \in [1..2 -> FolderRanges(2)], lr \in [1..2 -> FileRanges(2)] :
                 buffer = EnumBuffer(2, 2, fr, lr)
          /\ ManRead(buffer).ok
          /\ endpoint = "ok"
          /\ retries0 = 0
          /\ disk = "absent"
    /\ man = ManRead(buffer).man
    /\ error = ""
    /\ stage = "return"
    /\ file_index \in 0..(Len(man.files) - 1)
    /\ folder_index = None
    /\ name = <<>>
    /\ steps = 0
    /\ path = <<>>
    /\ VersionIdle
    /\ retries = retries0
    /\ attempts = 0
    /\ outcome = "pending"
    /\ made = <<>>
    /\ failures = <<>>
    /\ SyncIdle

\* path = f'{out}{self.file_path(file_index)}', before the try: an exception
\* of file_path leaves file_download, and on a cycle of parent links
\* file_path never returns.
FdPath ==
    /\ pc = "fd_path"
    /\ \E ends \in {FileFolderWalk(man, At(man.file_parents, file_index),
                                   Len(man.folders))} :
           IF ends = "loops"
           THEN /\ pc' = "fd_hangs"
                /\ UNCHANGED <<error, path>>
           ELSE \E r \in {FilePath(man, file_index)} :
                    IF r.ok
                    THEN /\ path' = OUT \o r.path
                         /\ pc' = "fd_makedirs"
                         /\ UNCHANGED error
                    ELSE /\ pc' = "fd_raised"
                         /\ error' = "IndexError"
                         /\ UNCHANGED path
    /\ UNCHANGED <<buffer, man, stage, file_index, folder_index, name, steps,
                   versionVars, fetchVars, syncVars>>

\* An exception outside the loop sent back into the loop while retries are
\* left.
AfterOuterFailure_Retry(r) == IF RetriesExhausted(r) THEN "fd_done" ELSE "fd_get"

\* except Exception as err: return path, err. The outer handler returns
\* whatever retries are left.
AfterOuterFailure(r) == "fd_done"

\* os.makedirs(f'{out}/{self.file_folder(file_index)}', exist_ok = True):
\* done, or an OSError that the outer except turns into the outcome.
FdMakedirs ==
    /\ pc = "fd_makedirs"
    /\ \/ /\ pc' = "fd_get"
          /\ UNCHANGED outcome
       \/ /\ pc' = AfterOuterFailure(retries)
          /\ outcome' = "OSError"
    /\ made' = OUT \o <<SLASH>>
                \o FileFolderFrom(man, At(man.file_parents, file_index),
                                  <<>>).name
    /\ UNCHANGED <<buffer, man, error, stage, walkVars, versionVars, endpoint,
                   retries0, retries, attempts, disk, failures,
                   syncVars>>

\* The loop left by break, not by return, when no retries are left.
Except_Break(err) ==
    /\ failures' = Append(failures, err)
    /\ IF RetriesExhausted(retries)
       THEN /\ outcome' = err
            /\ pc' = "fd_write"
            /\ UNCHANGED retries
       ELSE /\ retries' = retries - 1
            /\ pc' = "fd_get"
            /\ UNCHANGED outcome

\* An inflate that fails ends the task whatever retries are left.
Except_ZlibFatal(err) ==
    /\ failures' = Append(failures, err)
    /\ IF RetriesExhausted(retries) \/ err = "zlib.error"
       THEN /\ outcome' = err
            /\ pc' = "fd_done"
            /\ UNCHANGED retries
       ELSE /\ retries' = retries - 1
            /\ pc' = "fd_get"
            /\ UNCHANGED outcome

\* except Exception as err: if not retries: return path, err; retries -= 1
Except(err) ==
    /\ failures' = Append(failures, err)
    /\ IF RetriesExhausted(retries)
       THEN /\ outcome' = err
            /\ pc' = "fd_done"
            /\ UNCHANGED retries
       ELSE /\ retries' = retries - 1
            /\ pc' = "fd_get"
            /\ UNCHANGED outcome

\* self.project_name(), the first thing file_url evaluates, finds its name.
ProjectNameOk(m) == m.header.project_name < Len(m.names)

\* data = urllib.request.urlopen(f'{cdn}/{self.file_url(file_index)}').read()
\* file_url is evaluated inside the inner try: its IndexError is handled as a
\* failed GET is, though no GET was issued.
FdGet ==
    /\ pc = "fd_get"
    /\ IF ~ProjectNameOk(man)
       THEN /\ Except("IndexError")
            /\ UNCHANGED attempts
       ELSE /\ attempts' = attempts + 1
            /\ \/ /\ GetMaySucceed
                  /\ pc' = "fd_inflate"
                  /\ UNCHANGED <<retries, outcome, failures>>
               \/ /\ GetMayFail
                  /\ Except("URLError")
    /\ UNCHANGED <<buffer, man, error, stage, walkVars, versionVars, endpoint,
                   retries0, disk, made, syncVars>>

\* data = zlib.decompress(data); break
FdInflate ==
    /\ pc = "fd_inflate"
    /\ \/ /\ InflateMaySucceed
          /\ pc' = "fd_write"
          /\ UNCHANGED <<retries, outcome, failures>>
       \/ /\ InflateMayFail
          /\ Except("zlib.error")
    /\ UNCHANGED <<buffer, man, error, stage, walkVars, versionVars, endpoint,
                   retries0, attempts, disk, made, syncVars>>

\* with open(path, 'wb') as outfile: outfile.write(data); return path, None.
\* open may fail, leaving the path as it was; the write may fail after open
\* has truncated the file.
FdWrite ==
    /\ pc = "fd_write"
    /\ \/ /\ disk' = "written"
          /\ outcome' = "None"
          /\ pc' = "fd_done"
       \/ /\ outcome' = "OSError"
          /\ pc' = AfterOuterFailure(retries)
          /\ UNCHANGED disk
       \/ /\ disk' = "truncated"
          /\ outcome' = "OSError"
          /\ pc' = AfterOuterFailure(retries)
    /\ UNCHANGED <<buffer, man, error, stage, walkVars, versionVars, endpoint,
                   retries0, retries, attempts, made, failures,
                   syncVars>>

NextFetch ==
    \/ FdPath
    \/ FdMakedirs
    \/ FdGet
    \/ FdInflate
    \/ FdWrite

SpecFetch == InitFetch /\ [][NextFetch]_vars

\* ---------------------------------------------------------------- download

MaxThreads == 2

\* def file_download(self, file_index, cdn, out, retries: int = 3)
DefaultRetries == 3

\* A file on disk is modelled by what file_verify reads of it: whether the
\* path exists, the length of its content and the MD5 digest of its content.
Absent == [exists |-> FALSE, size |-> 0, md5 |-> <<>>]
Content(size, md5) == [exists |-> TRUE, size |-> size, md5 |-> md5]

\* hashlib.md5() of no bytes: d41d8cd98f00b204e9800998ecf8427e
Md5Empty ==
    <<212, 29, 140, 217, 143, 0, 178, 4, 233, 128, 9, 152, 236, 248, 66, 126>>
EmptyContent == Content(0, Md5Empty)

\* The content a manifest entry records, and contents that differ from it in
\* length, and in digest alone.
Recorded(rec) == Content(rec.size_uncompressed, rec.md5)
OtherMd5 == [i \in 1..16 |-> 171]
DiskOf(kind, rec) ==
    CASE kind = "absent" -> Absent
      [] kind = "good" -> Recorded(rec)
      [] kind = "wrongsize" -> Content(rec.size_uncompressed + 1, OtherMd5)
      [] kind = "wrongmd5" -> Content(rec.size_uncompressed, OtherMd5)

\* The bytes object data as it is before the loop, empty.
Payload_Empty(net, rec) == EmptyContent

\* What the payload of the file inflates to: the recorded content, or, from
\* a CDN that serves something else under the URL, other bytes.
Payload(net, rec) ==
    IF net = "corrupt" THEN Content(rec.size_uncompressed, OtherMd5)
    ELSE Recorded(rec)

\* binascii.hexlify / hexdigest: two lowercase hex digits per byte.
HexDigit(n) == IF n < 10 THEN 48 + n ELSE 87 + n
RECURSIVE Hexlify(_)
Hexlify(bs) ==
    IF bs = <<>> THEN <<>>
    ELSE <<HexDigit(bs[1] \div 16), HexDigit(bs[1] % 16)>> \o Hexlify(Tail(bs))

\* file_md5_hex(i), file_size_uncompressed(i)
FileMd5Hex(m, i) == Hexlify(At(m.files, i).md5)
FileSizeUncompressed(m, i) == At(m.files, i).size_uncompressed

\* The md5 comparison left out.
FileVerify_NoMd5(m, i, on_disk) ==
    IF ~on_disk.exists THEN FALSE
    ELSE on_disk.size = FileSizeUncompressed(m, i)

\* file_verify(i, out) of a file whose path is computed, on_disk being what
\* is at that path.
FileVerify(m, i, on_disk) ==
    IF ~on_disk.exists THEN FALSE
    ELSE IF ~(on_disk.size = FileSizeUncompressed(m, i)) THEN FALSE
    ELSE IF ~(Hexlify(on_disk.md5) = FileMd5Hex(m, i)) THEN FALSE
    ELSE TRUE

\* man.file_range()
FileRange(m) == [i \in 1..Len(m.files) |-> i - 1]

\* The last file never listed.
MissingFiles_DropLast(m, disk_now) ==
    SelectSeq(FileRange(m),
              LAMBDA i : i + 1 < Len(m.files)
                         /\ ~FileVerify(m, i, At(disk_now, i)))

\* [ file_index for file_index in man.file_range()
\*   if not man.file_verify(file_index, output) ]
MissingFiles(m, disk_now) ==
    SelectSeq(FileRange(m), LAMBDA i : ~FileVerify(m, i, At(disk_now, i)))

\* The first file index whose file_path does not end well, or None.
FirstBadPath(m) ==
    LET bad == {i \in 0..(Len(m.files) - 1) : FilePathEnds(m, i) # "ends"}
    IN  IF bad = {} THEN None ELSE CHOOSE i \in bad : \A j \in bad : i <= j

\* fetch = lambda file_index: man.file_download(file_index, cdn, output)
\* The lambda passes no retries: file_download runs on its default.
FetchRetries(n) == DefaultRetries

\* The manifests download is run on: a root folder holding file f and the
\* folder A, which holds g (and h); a root folder that declares itself its
\* own subfolder; a file named by an index out of names; and buffers
\* Man.read rejects.
SyncNames == <<0, 65, 0, 102, 0, 103, 0, 104>>
SyncBuffer2 ==
    EncodeMan(MAGIC, Header0,
              <<Folder(0, 1, 1, 0, 1), Folder(1, 0, 0, 1, 1)>>,
              <<File(2), File(3)>>, 5, SyncNames)
SyncBuffer3 ==
    EncodeMan(MAGIC, Header0,
              <<Folder(0, 1, 1, 0, 1), Folder(1, 0, 0, 1, 2)>>,
              <<File(2), File(3), File(4)>>, 5, SyncNames)
CycleBuffer ==
    EncodeMan(MAGIC, Header0, <<Folder(0, 0, 1, 0, 1)>>, <<File(1)>>, 2,
              <<0, 102>>)
BadUtf8Buffer ==
    EncodeMan(MAGIC, Header0, TreeFolders, <<File(3)>>, 4,
              <<0, 65, 0, 255, 0, 102>>)
RejectedBuffers ==
    {<<0, 0, 0, 0>> \o SubSeq(SyncBuffer2, 5, Len(SyncBuffer2)),
     SubSeq(SyncBuffer2, 1, 30), BadUtf8Buffer}

\* Per file, what the run meets: what is at the path before, how the CDN
\* answers its GETs, whether makedirs and the write succeed.
Scenario(disk0, net, dirs, write) ==
    [disk0 |-> disk0, net |-> net, dirs |-> dirs, write |-> write]
Scenarios ==
    {Scenario("good", "ok", "ok", "ok"),
     Scenario("absent", "ok", "ok", "ok"),
     Scenario("wrongsize", "ok", "ok", "ok"),
     Scenario("wrongmd5", "corrupt", "ok", "ok"),
     Scenario("absent", "get_fails", "ok", "ok"),
     Scenario("wrongsize", "inflate_fails", "ok", "ok"),
     Scenario("wrongmd5", "ok", "ok", "fails"),
     Scenario("absent", "ok", "fails", "ok")}
FewScenarios ==
    {Scenario("absent", "ok", "ok", "ok"),
     Scenario("absent", "get_fails", "ok", "ok")}

\* What is on disk before download runs.
Disk0 == [i \in 1..Len(scen) |-> DiskOf(scen[i].disk0, File(0))]

\* takes counts the times the pool handed the file's index to a thread.
QueuedTask ==
    [pc |-> "queued", takes |-> 0, retries |-> 0, attempts |-> 0,
     outcome |-> ""]

\* download(cdn, project, version, output, threads, retries) is called, the
\* version already padded.
InitSync ==
    /\ pc = "manifest_get"
    /\ \/ /\ buffer = SyncBuffer2
          /\ scen \in [1..2 -> Scenarios]
       \/ /\ buffer = SyncBuffer3
          /\ scen \in [1..3 -> FewScenarios]
       \/ /\ buffer \in {CycleBuffer, BadNameBuffer, BadProjectBuffer}
          /\ scen \in [1..1 -> FewScenarios]
       \/ /\ buffer \in RejectedBuffers
          /\ scen \in [1..1 -> FewScenarios]
    /\ threads \in 0..MaxThreads
    /\ dl_retries \in 0..MaxRetries
    /\ fs = Disk0
    /\ man = NoMan
    /\ error = ""
    /\ stage = ""
    /\ WalkIdle
    /\ VersionIdle
    /\ FetchIdle
    /\ verified = <<>>
    /\ worklist = <<>>
    /\ taken = 0
    /\ worker = [w \in 1..threads |-> None]
    /\ task = [i \in 1..Len(scen) |-> QueuedTask]
    /\ results = <<>>
    /\ count = 0

syncConst == <<buffer, walkVars, versionVars, fetchVars, threads, dl_retries,
               scen>>

\* man_data = urllib.request.urlopen(url).read(): the bytes, or the
\* exception of a GET that fails.
DlManifestGet ==
    /\ pc = "manifest_get"
    /\ \/ /\ pc' = "manifest_read"
          /\ UNCHANGED error
       \/ /\ pc' = "raised"
          /\ error' = "URLError"
    /\ UNCHANGED <<syncConst, man, stage, fs, verified, worklist, taken,
                   worker, task, results, count>>

\* man = Man.read(io.BytesIO(man_data))
DlManifestRead ==
    /\ pc = "manifest_read"
    /\ \E r \in {ManRead(buffer)} :
           /\ man' = r.man
           /\ error' = r.error
           /\ stage' = r.stage
           /\ pc' = IF r.ok THEN "verify" ELSE "raised"
    /\ UNCHANGED <<syncConst, fs, verified, worklist, taken, worker, task,
                   results, count>>

\* missing_files = [ ... if not man.file_verify(file_index, output) ]
\* file_verify computes file_path first: at the first file whose path does
\* not compute the comprehension raises IndexError, or never returns.
DlVerify ==
    /\ pc = "verify"
    /\ \E bad \in {FirstBadPath(man)} :
           IF bad = None
           THEN /\ verified' = FileRange(man)
                /\ worklist' = MissingFiles(man, fs)
                /\ pc' = "pool"
                /\ UNCHANGED error
           ELSE /\ verified' = SubSeq(FileRange(man), 1, bad + 1)
                /\ worklist' = <<>>
                /\ IF FilePathEnds(man, bad) = "loops"
                   THEN pc' = "hangs" /\ UNCHANGED error
                   ELSE pc' = "raised" /\ error' = "IndexError"
    /\ UNCHANGED <<syncConst, man, stage, fs, taken, worker, task, results,
                   count>>

\* results = ThreadPool(threads).imap_unordered(fetch, missing_files)
\* ThreadPool raises ValueError for fewer than one thread.
DlPool ==
    /\ pc = "pool"
    /\ IF threads < 1
       THEN pc' = "raised" /\ error' = "ValueError"
       ELSE pc' = "results" /\ UNCHANGED error
    /\ UNCHANGED <<syncConst, man, stage, fs, verified, worklist, taken,
                   worker, task, results, count>>

\* The files of the manifest as indices, and the task of file i.
SyncFiles == 0..(Len(task) - 1)
Task(i) == task[i + 1]

\* The exception left to propagate.
OuterExcept_Reraise(err) == "raised"

\* except Exception as err: return path, err
OuterExcept(err) == err

\* The return of one fetch ends every task.
TaskReturns_All(w, i, err) ==
    /\ task' = [j \in 1..Len(task) |->
                    [task[j] EXCEPT !.pc = "done", !.outcome = err]]
    /\ results' = Append(results, i)
    /\ worker' = [worker EXCEPT ![w] = None]

\* The task of file i ends with the error err (None for success): fetch
\* returns (path, err) to the pool, and the thread is free again. A fetch
\* that raised hands the pool its exception instead ("raised").
TaskReturns(w, i, err) ==
    /\ task' = [task EXCEPT ![i + 1].pc = "done", ![i + 1].outcome = err]
    /\ results' = Append(results, i)
    /\ worker' = [worker EXCEPT ![w] = None]

\* The handing out repeats the entry it handed out last.
NextEntry_Same(n) == IF n = 0 THEN 1 ELSE n

\* The pool hands out missing_files entry by entry, in order.
NextEntry(n) == n + 1

\* A thread taken to be free while it runs a fetch.
ThreadFree_Always(w) == TRUE

\* A pool thread runs one fetch at a time: it asks for the next entry only
\* after the fetch it ran has returned.
ThreadFree(w) == worker[w] = None

\* A free pool thread takes the next entry of missing_files and calls
\* fetch(file_index); file_download computes path (which file_verify has
\* computed before) and enters its try.
TaskTake(w) ==
    /\ pc = "results"
    /\ ThreadFree(w)
    /\ taken < Len(worklist)
    /\ \E i \in {worklist[NextEntry(taken)]} :
           /\ worker' = [worker EXCEPT ![w] = i]
           /\ task' = [task EXCEPT ![i + 1].pc = "makedirs",
                                   ![i + 1].takes = @ + 1,
                                   ![i + 1].retries = FetchRetries(dl_retries)]
    /\ taken' = taken + 1
    /\ UNCHANGED <<syncConst, pc, man, error, stage, fs, verified, worklist,
                   results, count>>

\* os.makedirs(..., exist_ok = True)
TaskMakedirs(w) ==
    /\ pc = "results"
    /\ worker[w] # None
    /\ \E i \in {worker[w]} :
           /\ task[i + 1].pc = "makedirs"
           /\ IF scen[i + 1].dirs = "fails"
              THEN TaskReturns(w, i, OuterExcept("OSError"))
              ELSE /\ task' = [task EXCEPT ![i + 1].pc = "get"]
                   /\ UNCHANGED <<results, worker>>
    /\ UNCHANGED <<syncConst, pc, man, error, stage, fs, verified, worklist,
                   taken, count>>

\* The loop left by break when no retries are left.
AfterFailure_Break(r) == IF RetriesExhausted(r) THEN "write" ELSE "get"

\* except Exception as err: if not retries: return path, err
\* Where the task is after a failed turn of the loop.
AfterFailure(r) == IF RetriesExhausted(r) THEN "done" ELSE "get"

\* The exception of a failed turn: of file_url when the project name index
\* is none of names (no GET is issued), of the GET, or of the inflate.
TurnError(i) ==
    IF ~ProjectNameOk(man) THEN "IndexError"
    ELSE IF scen[i + 1].net = "get_fails" THEN "URLError"
    ELSE "zlib.error"

\* One turn of the while loop: the GET and the inflate; on an exception of
\* either, return the error if no retries are left, else retries -= 1.
TaskGet(w) ==
    /\ pc = "results"
    /\ worker[w] # None
    /\ \E i \in {worker[w]} :
           /\ task[i + 1].pc = "get"
           /\ \E t \in {[task EXCEPT
                           ![i + 1].attempts =
                               IF ProjectNameOk(man) THEN @ + 1 ELSE @]} :
                  IF ProjectNameOk(man) /\ scen[i + 1].net \in {"ok", "corrupt"}
                  THEN /\ task' = [t EXCEPT ![i + 1].pc = "write"]
                       /\ UNCHANGED <<results, worker>>
                  ELSE \E next \in {AfterFailure(task[i + 1].retries)} :
                       IF next = "done"
                       THEN /\ task' = [t EXCEPT
                                          ![i + 1].pc = "done",
                                          ![i + 1].outcome = TurnError(i)]
                            /\ results' = Append(results, i)
                            /\ worker' = [worker EXCEPT ![w] = None]
                       ELSE /\ task' = [t EXCEPT
                                          ![i + 1].pc = next,
                                          ![i + 1].retries =
                                              IF RetriesExhausted(@)
                                              THEN @ ELSE @ - 1]
                            /\ UNCHANGED <<results, worker>>
    /\ UNCHANGED <<syncConst, pc, man, error, stage, fs, verified, worklist,
                   taken, count>>

\* with open(path, 'wb') as outfile: outfile.write(data); return path, None
\* open may fail, leaving the path as it was; the write may fail after open
\* has truncated the file.
TaskWrite(w) ==
    /\ pc = "results"
    /\ worker[w] # None
    /\ \E i \in {worker[w]} :
           /\ task[i + 1].pc = "write"
           /\ \/ /\ scen[i + 1].write = "ok"
                 /\ fs' = [fs EXCEPT ![i + 1] =
                               Payload(scen[i + 1].net, At(man.files, i))]
                 /\ TaskReturns(w, i, "None")
              \/ /\ scen[i + 1].write = "fails"
                 /\ UNCHANGED fs
                 /\ TaskReturns(w, i, OuterExcept("OSError"))
              \/ /\ scen[i + 1].write = "fails"
                 /\ fs' = [fs EXCEPT ![i + 1] = EmptyContent]
                 /\ TaskReturns(w, i, OuterExcept("OSError"))
    /\ UNCHANGED <<syncConst, pc, man, error, stage, verified, worklist,
                   taken, count>>

\* for path, error in results: count += 1; print(...)
\* The iterator yields what a fetch returned and raises what a fetch raised.
DlReport ==
    /\ pc = "results"
    /\ count < Len(results)
    /\ IF Task(results[count + 1]).outcome = "raised"
       THEN pc' = "raised" /\ error' = "OSError" /\ UNCHANGED count
       ELSE count' = count + 1 /\ UNCHANGED <<pc, error>>
    /\ UNCHANGED <<syncConst, man, stage, fs, verified, worklist, taken,
                   worker, task, results>>

\* The iterator is exhausted once it has yielded one result per entry of
\* missing_files: the for loop ends and download returns.
DlReturn ==
    /\ pc = "results"
    /\ count = Len(worklist)
    /\ pc' = "returned"
    /\ UNCHANGED <<syncConst, man, error, stage, fs, verified, worklist,
                   taken, worker, task, results, count>>

NextSync ==
    \/ DlManifestGet
    \/ DlManifestRead
    \/ DlVerify
    \/ DlPool
    \/ \E w \in 1..threads : TaskTake(w)
    \/ \E w \in 1..threads : TaskMakedirs(w)
    \/ \E w \in 1..threads : TaskGet(w)
    \/ \E w \in 1..threads : TaskWrite(w)
    \/ DlReport
    \/ DlReturn

SpecSync == InitSync /\ [][NextSync]_vars

\* ------------------------------------------------------------ the claims

\* Man.read returned a Man.
ReadOk == pc \in {"ready", "file_folder", "returned", "raised"}

FolderIdx == 0..(Len(man.folders) - 1)
FileIdx == 0..(Len(man.files) - 1)

\* The folders whose record declares folder c, file f, as a child.
FolderDeclarers(c) == {p \in FolderIdx : InRange(c, FolderFolders(At(man.folders, p)))}
FileDeclarers(f) == {p \in FolderIdx : InRange(f, FolderFiles(At(man.folders, p)))}

SetMax(S) == CHOOSE x \in S : \A y \in S : y <= x

\* C1: Man.read on a buffer whose first four bytes are not b"RLSM" fails with
\* an error at the magic check: it reaches no later statement (no header,
\* folder, file or name is parsed) and returns no Man.
C1_BadMagicRejected ==
    (pc # "start" /\ BufRead(buffer, 0, 4) # MAGIC)
        => /\ pc = "failed"
           /\ error = "AssertionError"
           /\ stage = "magic"
           /\ man = NoMan

\* A buffer with another magic and a well-formed rest has been refused.
C1_Witness ==
    /\ pc = "failed"
    /\ stage = "magic"
    /\ Len(buffer) = Len(TreeBuffer)
    /\ SubSeq(buffer, 5, Len(buffer)) = SubSeq(TreeBuffer, 5, Len(TreeBuffer))

\* C2 as stated: after Man.read succeeds, every folder c and file f in the
\* child ranges of folder p has p as its parent.
C2_EveryDeclarerIsParent ==
    ReadOk =>
        /\ \A c \in FolderIdx : \A p \in FolderDeclarers(c) :
               At(man.folder_parents, c) = p
        /\ \A f \in FileIdx : \A p \in FileDeclarers(f) :
               At(man.file_parents, f) = p

\* C2 amended: after Man.read succeeds, every folder c and file f in the child
\* ranges of folder p has p as its parent, unless a folder after p declares it
\* too.
C2_LastDeclarerIsParent ==
    ReadOk =>
        /\ \A c \in FolderIdx : \A p \in FolderDeclarers(c) :
               (\A q \in FolderDeclarers(c) : q <= p)
                   => At(man.folder_parents, c) = p
        /\ \A f \in FileIdx : \A p \in FileDeclarers(f) :
               (\A q \in FileDeclarers(f) : q <= p)
                   => At(man.file_parents, f) = p

\* A Man of a well-formed tree was returned: root -> A -> B, the file in B.
C2_Witness ==
    /\ ReadOk
    /\ buffer = TreeBuffer
    /\ man.folder_parents = <<None, 0, 1>>
    /\ man.file_parents = <<2>>

\* C3: after Man.read succeeds, folder 0 has no parent, whatever the records
\* declare.
C3_RootHasNoParent ==
    (ReadOk /\ Len(man.folder_parents) > 0)
        => At(man.folder_parents, 0) = None

\* C4 as stated: the parent arrays are as long as the tables, and every file
\* and every folder but folder 0 has a parent.
C4_OnlyRootIsNone ==
    ReadOk =>
        /\ Len(man.folder_parents) = Len(man.folders)
        /\ Len(man.file_parents) = Len(man.files)
        /\ \A c \in FolderIdx \ {0} : At(man.folder_parents, c) # None
        /\ \A f \in FileIdx : At(man.file_parents, f) # None

\* C4 amended: the parent arrays are as long as the tables, and an entry is
\* None exactly when no folder record declares its index as a child.
C4_NoneIffUndeclared ==
    ReadOk =>
        /\ Len(man.folder_parents) = Len(man.folders)
        /\ Len(man.file_parents) = Len(man.files)
        /\ \A c \in FolderIdx :
               (At(man.folder_parents, c) = None) <=> (FolderDeclarers(c) = {})
        /\ \A f \in FileIdx :
               (At(man.file_parents, f) = None) <=> (FileDeclarers(f) = {})

\* A Man was returned in which a folder other than folder 0 and a file are
\* declared by no record, and another folder by one.
C4_Witness ==
    /\ ReadOk
    /\ \E c \in FolderIdx \ {0} : At(man.folder_parents, c) = None
    /\ \E f \in FileIdx : At(man.file_parents, f) = None
    /\ \E c \in FolderIdx : At(man.folder_parents, c) # None

\* The folder records of the buffer and its file count, as Man.read reads
\* them, for a buffer whose tables are complete.
RawFolders(buf) ==
    LET fo == ReadRecords(buf, 20, FromLE(BufRead(buf, 16, 4)), S_FOLDER_size, <<>>)
    IN  [i \in 1..Len(fo.items) |-> ManFolder(fo.items[i])]
RawFileCount(buf) ==
    LET fo == ReadRecords(buf, 20, FromLE(BufRead(buf, 16, 4)), S_FOLDER_size, <<>>)
    IN  FromLE(BufRead(buf, fo.pos, 4))

\* C5: an index that several folder records declare gets the declaring folder
\* of the largest index as its parent, and the overlap is no error: Man.read
\* fails in the parent loop only on a range that leaves its table.
C5_LastWriterWins ==
    /\ ReadOk =>
           /\ \A c \in FolderIdx : Cardinality(FolderDeclarers(c)) >= 2
                  => At(man.folder_parents, c) = SetMax(FolderDeclarers(c))
           /\ \A f \in FileIdx : Cardinality(FileDeclarers(f)) >= 2
                  => At(man.file_parents, f) = SetMax(FileDeclarers(f))
    /\ (pc = "failed" /\ stage = "parents") =>
           \E i \in 1..Len(RawFolders(buffer)) :
               \/ /\ FolderFolders(RawFolders(buffer)[i]).stop > Len(RawFolders(buffer))
                  /\ RawFolders(buffer)[i].folders_count > 0
               \/ /\ FolderFiles(RawFolders(buffer)[i]).stop > RawFileCount(buffer)
                  /\ RawFolders(buffer)[i].files_count > 0

\* A Man was returned for records of which three declare the same folder and
\* two the same file.
C5_Witness ==
    /\ ReadOk
    /\ \E c \in FolderIdx : Cardinality(FolderDeclarers(c)) >= 3
    /\ \E f \in FileIdx : Cardinality(FileDeclarers(f)) >= 2

\* C6: file_folder terminates for every file of every Man that Man.read
\* returns: its walk never passes through more folders than there are.
C6_WalkEnds == pc = "file_folder" => steps <= Len(man.folders)

\* The folders from the root down to folder f, along the parent links.
RECURSIVE ChainDown(_)
ChainDown(f) ==
    IF f = None THEN <<>>
    ELSE Append(ChainDown(At(man.folder_parents, f)), f)

\* name + "/" of every folder of the chain, from the root to the leaf, then
\* the file's name.
PathOf(f) ==
    LET chain == ChainDown(At(man.file_parents, f))
    IN  Flatten([k \in 1..Len(chain) |->
                   At(man.names, At(man.folders, chain[k]).name) \o <<SLASH>>])
        \o At(man.names, At(man.files, f).name)

\* "/A/B/f.txt"
TreePath == <<47, 65, 47, 66, 47, 102, 46, 116, 120, 116>>

\* C7: file_path(i) is name + "/" of every folder on the parent chain of file
\* i, from the root down to its parent, followed by the file's name; in the
\* tree root -> A -> B with f.txt in B it is "/A/B/f.txt".
C7_PathRootToLeaf ==
    pc = "returned" =>
        /\ path = PathOf(file_index)
        /\ buffer = TreeBuffer => path = TreePath

\* file_path returned for f.txt of the tree.
C7_Witness == pc = "returned" /\ buffer = TreeBuffer /\ path = TreePath

\* The bytes rendered, and the components of the rendering.
RenderedBytes ==
    IF pc = "release_version" THEN man.header.release_version
    ELSE At(man.files, file_index).version
RenderedParts == StrSplit(rendered, DOT)

\* "4.3.2.1"
V4321 == <<52, 46, 51, 46, 50, 46, 49>>

ArgParts == StrSplit(version, DOT)
UrlParts == StrSplit(url_version, DOT)

\* C9: the version download puts in the manifest URL has exactly four
\* dot-separated components: the components supplied (as the integers they
\* denote), preceded by as many "0" components as are needed to reach four.
C9_FourComponents ==
    pc = "url" =>
        /\ Len(UrlParts) = 4
        /\ Len(ArgParts) <= 4
        /\ \A k \in 1..4 :
               IF k <= 4 - Len(ArgParts) THEN UrlParts[k] = <<48>>
               ELSE IntParse(UrlParts[k]).val
                    = IntParse(ArgParts[k - (4 - Len(ArgParts))]).val

\* The file's GET is issued and always fails, or its payload never inflates.
AlwaysFails == endpoint \in {"get_fails", "inflate_fails"} /\ ProjectNameOk(man)

\* C10: for a file whose GET or inflate always fails, file_download with
\* retries = n never makes more than n + 1 attempts, returns no success, and
\* returns the error of the failing GET or inflate after exactly n + 1
\* attempts; the only other way it ends is the folder creation failing,
\* before any attempt.
C10_RetriesPlusOneAttempts ==
    (AlwaysFails /\ pc \in {"fd_makedirs", "fd_get", "fd_inflate", "fd_write", "fd_done"}) =>
        /\ attempts <= retries0 + 1
        /\ pc # "fd_write"
        /\ pc = "fd_done" =>
               \/ outcome \in {"URLError", "zlib.error"} /\ attempts = retries0 + 1
               \/ outcome = "OSError" /\ attempts = 0

\* With retries = 2 the third failed GET, and the third failed inflate, ended
\* file_download with the error.
C10_Witness ==
    /\ AlwaysFails
    /\ pc = "fd_done"
    /\ retries0 = 2
    /\ attempts = 3
    /\ outcome \in {"URLError", "zlib.error"}

\* C11: download's retries argument is the limit of every file task: with
\* download(..., retries = n) no file is attempted more than n + 1 times.
C11_AttemptsWithinDownloadRetries ==
    \A i \in SyncFiles : Task(i).attempts <= dl_retries + 1

\* The GETs (their URL built), the inflate, makedirs and the write of file i
\* all succeed.
OwnStepsSucceed(i) ==
    /\ ProjectNameOk(man)
    /\ scen[i + 1].net \in {"ok", "corrupt"}
    /\ scen[i + 1].dirs = "ok"
    /\ scen[i + 1].write = "ok"

\* The task of file i has failed for good.
FailedForGood(i) == Task(i).pc = "done" /\ Task(i).outcome # "None"

InWorklist(i) == \E k \in 1..Len(worklist) : worklist[k] = i

\* C12: a file whose download fails for good neither aborts the sync nor
\* changes what happens to another file: once tasks run download does not
\* raise, every file of the worklist whose own steps succeed has ended with
\* error None and its payload at its path when download returns, and its
\* task never ends any other way.
C12_FailureIsIsolated ==
    /\ pc = "raised" => taken = 0
    /\ \A i \in SyncFiles :
           /\ (Task(i).pc = "done" /\ OwnStepsSucceed(i))
                  => /\ Task(i).outcome = "None"
                     /\ At(fs, i) = Payload(scen[i + 1].net, At(man.files, i))
           /\ (pc = "returned" /\ InWorklist(i)) => Task(i).pc = "done"

\* Two threads, a file that failed for good and another that succeeded.
C12_Witness ==
    /\ pc = "returned"
    /\ threads = 2
    /\ \E i, j \in SyncFiles :
           /\ FailedForGood(i)
           /\ InWorklist(j) /\ OwnStepsSucceed(j) /\ Task(j).outcome = "None"
           /\ At(fs, j) = Recorded(At(man.files, j))

\* How many entries of the sequence q are x.
Occurrences(q, x) == Cardinality({k \in 1..Len(q) : q[k] = x})

\* C13: every index of the worklist is taken by exactly one pool thread and
\* yields exactly one outcome: no index is handed out twice or held by two
\* threads, none yields two results, and when download returns every index
\* of the worklist (and no other) was taken once, yielded one result, and
\* count equals the length of the worklist.
C13_ExactlyOnce ==
    /\ \A i \in SyncFiles :
           /\ Task(i).takes <= 1
           /\ Occurrences(results, i) <= 1
           /\ Cardinality({w \in 1..threads : worker[w] = i}) <= 1
           /\ Task(i).takes = 1 => InWorklist(i)
    /\ pc = "returned" =>
           /\ count = Len(worklist)
           /\ Len(results) = Len(worklist)
           /\ \A i \in SyncFiles :
                  InWorklist(i) => /\ Task(i).takes = 1
                                   /\ Occurrences(results, i) = 1
                                   /\ Task(i).pc = "done"

\* download returned after three files went through two threads.
C13_Witness ==
    /\ pc = "returned"
    /\ threads = 2
    /\ Len(worklist) = 3
    /\ count = 3

\* C14: once the manifest is decoded download terminates, whatever fails:
\* as long as it has neither returned nor raised there is a step for it or
\* for a pool thread to take (and every step uses up a retry, a worklist
\* entry or a result, so the steps run out).
C14_DownloadTerminates ==
    pc \notin {"manifest_get", "manifest_read", "returned", "raised"}
        => ENABLED NextSync

\* The errors file_download returns when its retries are used up.
ExhaustedErrors == {"URLError", "zlib.error", "IndexError"}

\* No turn of the loop of file i can succeed.
NeverFetches(i) ==
    ~ProjectNameOk(man) \/ scen[i + 1].net \in {"get_fails", "inflate_fails"}

\* C15: a file task that uses up its retries returns an error and leaves its
\* destination path as it was before the sync: not created, not truncated,
\* not overwritten. A file none of whose turns can succeed, once makedirs
\* is past, ends that way.
C15_ExhaustedLeavesPathUntouched ==
    \A i \in SyncFiles :
        /\ (Task(i).pc = "done" /\ Task(i).outcome \in ExhaustedErrors)
               => At(fs, i) = At(Disk0, i)
        /\ (Task(i).pc \in {"write", "done"} /\ NeverFetches(i)
               /\ scen[i + 1].dirs = "ok")
               => /\ Task(i).pc = "done"
                  /\ Task(i).outcome \in ExhaustedErrors
                  /\ Task(i).retries = 0
                  /\ At(fs, i) = At(Disk0, i)

\* One task used up its retries over a path that was absent, another over a
\* path that held a stale file.
C15_Witness ==
    \E i, j \in SyncFiles :
        /\ Task(i).pc = "done" /\ Task(i).outcome = "URLError"
        /\ Task(i).attempts = DefaultRetries + 1
        /\ At(fs, i) = Absent
        /\ Task(j).pc = "done" /\ Task(j).outcome = "zlib.error"
        /\ At(fs, j).exists /\ At(fs, j) = At(Disk0, j)

\* C16: file_download never raises: whatever fails, path computation
\* included, the call ends by returning a (path, error) outcome.
C16_NeverRaises == pc # "fd_raised"

\* The manifest is decoded.
Decoded == pc \in {"verify", "pool", "results", "returned", "hangs"}

\* What is at the path of file i differs from what the manifest records:
\* nothing is there, or its length or its digest is another.
Mismatch(i) ==
    \/ ~At(fs, i).exists
    \/ At(fs, i).size # At(man.files, i).size_uncompressed
    \/ At(fs, i).md5 # At(man.files, i).md5

\* C18: file_verify(i, out) is false exactly when the path does not exist,
\* or its size differs from size_uncompressed, or the MD5 of its content
\* differs from the recorded md5, and true in every other case (for every
\* file whose path file_path computes).
C18_VerifyIffMatches ==
    Decoded =>
        \A i \in 0..(Len(man.files) - 1) :
            FilePathEnds(man, i) = "ends"
                => FileVerify(man, i, At(fs, i)) = ~Mismatch(i)

\* The worklist is built over a file that verifies, and a file that has the
\* recorded size but another digest and does not.
C18_Witness ==
    /\ pc = "pool"
    /\ \E i, j \in SyncFiles :
           /\ FileVerify(man, i, At(fs, i))
           /\ At(fs, j).exists
           /\ At(fs, j).size = At(man.files, j).size_uncompressed
           /\ ~FileVerify(man, j, At(fs, j))

\* The worklist as a set.
Worklist == {worklist[k] : k \in 1..Len(worklist)}

\* What was at the path of file i when download was called differs from
\* what the manifest records.
Mismatch0(i) ==
    \/ ~At(Disk0, i).exists
    \/ At(Disk0, i).size # At(man.files, i).size_uncompressed
    \/ At(Disk0, i).md5 # At(man.files, i).md5

\* C19: the worklist handed to the pool is exactly the set of file indices
\* for which file_verify returned false, each listed once: no verified file
\* is downloaded and no file that fails verification is left out.
C19_WorklistIsUnverified ==
    pc \in {"pool", "results", "returned"} =>
        /\ Worklist = {i \in SyncFiles : Mismatch0(i)}
        /\ \A k, l \in 1..Len(worklist) : k < l => worklist[k] < worklist[l]
        /\ \A i \in SyncFiles :
               /\ Task(i).takes > 0 => Mismatch0(i)
               /\ (pc = "returned" /\ Mismatch0(i)) => Task(i).pc = "done"
               /\ ~Mismatch0(i) => At(fs, i) = At(Disk0, i)

\* download returned having left a verified file alone and fetched a file
\* that did not verify.
C19_Witness ==
    /\ pc = "returned"
    /\ \E i, j \in SyncFiles :
           /\ ~Mismatch0(i) /\ Task(i).takes = 0
           /\ Mismatch0(j) /\ Task(j).takes = 1 /\ Task(j).outcome = "None"

\* The task of file i ended with error None.
Succeeded(i) == Task(i).pc = "done" /\ Task(i).outcome = "None"

\* Every file of the worklist ended with error None.
AllSucceeded == \A i \in SyncFiles : InWorklist(i) => Succeeded(i)

\* The CDN serves, for file i, a payload that inflates to the content the
\* manifest records for it.
PayloadAsRecorded(i) == scen[i + 1].net = "ok"

\* C17 as stated: after a sync in which file i ended with success,
\* file_verify(i, out) is true; and the worklist a second sync would build
\* right after a sync whose outcomes were all successes is empty.
C17_SuccessVerifies ==
    pc = "returned" =>
        /\ \A i \in SyncFiles :
               Succeeded(i) => FileVerify(man, i, At(fs, i))
        /\ AllSucceeded => MissingFiles(man, fs) = <<>>

\* C17 amended: the same, for the files whose payload inflates to the
\* content the manifest records (file_download writes what it inflated
\* without comparing it to the manifest).
C17_SuccessVerifiesRecordedPayload ==
    /\ \A i \in SyncFiles :
           (Succeeded(i) /\ PayloadAsRecorded(i))
               => FileVerify(man, i, At(fs, i))
    /\ (pc = "returned" /\ AllSucceeded
           /\ \A i \in SyncFiles : InWorklist(i) => PayloadAsRecorded(i))
           => MissingFiles(man, fs) = <<>>

\* download returned after fetching every file of the manifest with
\* success, and all of them verify.
C17_Witness ==
    /\ pc = "returned"
    /\ Len(worklist) = Len(man.files)
    /\ Len(worklist) >= 2
    /\ AllSucceeded
    /\ \A i \in SyncFiles : PayloadAsRecorded(i)
    /\ MissingFiles(man, fs) = <<>>

\* No step on any file has happened: none verified, no entry handed to a
\* thread, no GET, no result, and the disk as it was.
NoFileStep ==
    /\ verified = <<>>
    /\ worklist = <<>>
    /\ taken = 0
    /\ results = <<>>
    /\ count = 0
    /\ \A w \in 1..threads : worker[w] = None
    /\ \A i \in SyncFiles : Task(i).takes = 0 /\ Task(i).attempts = 0
    /\ fs = Disk0

\* The buffer does not begin with the magic, ends inside the folder table
\* its folder count announces, or has a name that is not UTF-8.
RejectedInput ==
    \/ BufRead(buffer, 0, 4) # MAGIC
    \/ Len(buffer) < 20 + S_FOLDER_size * FromLE(BufRead(buffer, 16, 4))
    \/ buffer = BadUtf8Buffer

\* C20: if the GET of the manifest fails or Man.read fails, download raises
\* and no per-file step happens: a download that raised without Man.read
\* having returned has verified, fetched and written nothing, and on a
\* buffer with a bad magic, a truncated table or invalid UTF-8 download
\* gets no further than Man.read.
C20_ManifestFailureIsFatal ==
    /\ (pc = "raised" /\ stage # "return") => NoFileStep
    /\ RejectedInput
           => /\ pc \in {"manifest_get", "manifest_read", "raised"}
              /\ NoFileStep

\* download raised the error Man.read raises for a bad magic, a truncated
\* table or invalid UTF-8.
C20_Witness ==
    /\ pc = "raised"
    /\ RejectedInput
    /\ error \in {"AssertionError", "struct.error", "UnicodeDecodeError"}
    /\ stage \in {"magic", "folders", "files", "names"}

\* The number of bytes the buffer announces: magic, header, the folder
\* count and its records, the file count and its records, the name count,
\* the name data length and that many bytes of names.
AnnouncedLength(buf) ==
    LET folder_count == FromLE(BufRead(buf, 16, 4))
        files_at == 20 + S_FOLDER_size * folder_count
        file_count == FromLE(BufRead(buf, files_at, 4))
        names_at == files_at + 4 + S_FILE_size * file_count
        name_data_length == FromLE(BufRead(buf, names_at + 4, 4))
    IN  names_at + 8 + name_data_length

\* Fewer bytes are left than some field being read requires.
Truncated(buf) == Len(buf) < AnnouncedLength(buf)

\* C21: Man.read fails on every truncated buffer: whenever fewer bytes
\* remain than the field being read requires, decoding ends with an error
\* and returns no Man.
C21_TruncatedRejected ==
    (pc # "start" /\ Truncated(buffer)) => (pc = "failed" /\ man = NoMan)

\* The file tasks in flight: started and not yet finished.
InFlight == {i \in SyncFiles : Task(i).pc \in {"makedirs", "get", "write"}}

\* C22: at every moment of a sync the number of file tasks in flight is at
\* most the pool size threads, also when the worklist is longer than the
\* pool.
C22_InFlightWithinPool == Cardinality(InFlight) <= threads

\* Three files to fetch, two threads, two tasks in flight and one waiting.
C22_Witness ==
    /\ pc = "results"
    /\ threads = 2
    /\ Len(worklist) = 3
    /\ Cardinality(InFlight) = 2
    /\ taken = 2

\* No folder and no file is in the child range of two folders.
RangesDisjoint ==
    /\ \A c \in FolderIdx : Cardinality(FolderDeclarers(c)) <= 1
    /\ \A f \in FileIdx : Cardinality(FileDeclarers(f)) <= 1

\* The destination path of file f, for a file whose path computes.
Destination(f) == OUT \o FilePath(man, f).path

\* The files other than the task's own whose path computes.
OtherFiles ==
    {g \in FileIdx : g # file_index /\ FilePathEnds(man, g) = "ends"}

\* C23 as stated: in a manifest whose child ranges are pairwise disjoint no
\* other file resolves to the path the task writes.
C23_DisjointRangesDistinctPaths ==
    (pc \in {"fd_makedirs", "fd_get", "fd_inflate", "fd_write", "fd_done"}
        /\ RangesDisjoint)
        => \A g \in OtherFiles : Destination(g) # path

\* No name holds a "/".
NoSlash == \A k \in 1..Len(man.names) : \A n \in 1..Len(man.names[k]) :
               man.names[k][n] # SLASH

NameOf(rec) == At(man.names, rec.name)

\* Two folders with one parent (or both with none), and two files with one
\* parent (or both with none), differ in name.
SiblingsDistinct ==
    /\ \A c, d \in FolderIdx :
           (c # d /\ At(man.folder_parents, c) = At(man.folder_parents, d))
               => NameOf(At(man.folders, c)) # NameOf(At(man.folders, d))
    /\ \A f, g \in FileIdx :
           (f # g /\ At(man.file_parents, f) = At(man.file_parents, g))
               => NameOf(At(man.files, f)) # NameOf(At(man.files, g))

\* C23 amended: in a manifest whose child ranges are pairwise disjoint,
\* whose names hold no "/" and whose sibling folders and sibling files
\* differ in name, no other file resolves to the path the task writes.
C23_TreeDistinctPaths ==
    (pc \in {"fd_makedirs", "fd_get", "fd_inflate", "fd_write", "fd_done"}
        /\ RangesDisjoint /\ NoSlash /\ SiblingsDistinct)
        => \A g \in OtherFiles : Destination(g) # path

\* The task wrote the file f of folder A while the root holds another f.
C23_Witness ==
    /\ pc = "fd_done"
    /\ disk = "written"
    /\ buffer = TwoFoldersBuffer
    /\ RangesDisjoint /\ NoSlash /\ SiblingsDistinct
    /\ OtherFiles # {}
    /\ \A g \in OtherFiles : Destination(g) # path

\* str.encode('utf-8'): one to four bytes a code point.
RECURSIVE Utf8Encode(_)
Utf8Encode(str) ==
    IF str = <<>> THEN <<>>
    ELSE LET c == str[1]
             head ==
                 IF c < 128 THEN <<c>>
                 ELSE IF c < 2048 THEN <<192 + (c \div 64), 128 + (c % 64)>>
                 ELSE IF c < 65536
                      THEN <<224 + (c \div 4096), 128 + ((c \div 64) % 64),
                             128 + (c % 64)>>
                 ELSE <<240 + (c \div 262144), 128 + ((c \div 4096) % 64),
                        128 + ((c \div 64) % 64), 128 + (c % 64)>>
         IN  head \o Utf8Encode(Tail(str))

\* The decoded field values written in the declared layout: magic, header,
\* folder count and records, file count and records, the number of names,
\* the length of the name data, the names joined by NUL.
ReEncode(m) ==
    EncodeMan(MAGIC, m.header, m.folders, m.files, Len(m.names),
              Utf8Encode(StrJoin(NUL, m.names)))

\* The buffer begins with the magic, is exactly as long as its counts
\* announce, and its name count is the number of names in its name data.
ValidlyConstructed(buf) ==
    LET files_at == 20 + S_FOLDER_size * FromLE(BufRead(buf, 16, 4))
        names_at == files_at + 4
                    + S_FILE_size * FromLE(BufRead(buf, files_at, 4))
        name_data == SubSeq(buf, names_at + 9, Len(buf))
    IN  /\ BufRead(buf, 0, 4) = MAGIC
        /\ Len(buf) = AnnouncedLength(buf)
        /\ FromLE(BufRead(buf, names_at, 4))
               = 1 + Cardinality({k \in 1..Len(name_data) : name_data[k] = NUL})

Opened == disk \in {"written", "truncated"}

\* C25: the steps of one file task are in order: the folder is ensured
\* before the first GET, every GET and inflate comes before the write, the
\* write follows an inflate that succeeded, and no GET follows the write.
C25_StepsInOrder ==
    /\ [](attempts > 0 => made # <<>>)
    /\ [](Opened => (pc = "fd_done" /\ attempts > 0))
    /\ [][/\ made' # made => (pc = "fd_makedirs" /\ attempts = 0 /\ ~Opened)
          /\ attempts' # attempts
                 => (pc = "fd_get" /\ made # <<>> /\ ~Opened /\ disk' = disk)
          /\ pc' = "fd_write" => (pc = "fd_inflate" /\ outcome' = "pending")
          /\ disk' # disk => (pc = "fd_write" /\ pc' = "fd_done")
          /\ pc = "fd_done" => FALSE]_vars

\* The task ensured the folder, failed a GET or an inflate, fetched again
\* and wrote the file.
C25_Witness ==
    /\ pc = "fd_done"
    /\ made # <<>>
    /\ attempts = 2
    /\ disk = "written"
    /\ outcome = "None"

\* The states of a file's task: Pending, Downloading (a retry is a further
\* turn in "get"), and the end, Downloaded or Failed by the outcome.
Downloading == {"makedirs", "get", "write"}
Downloaded(t) == t.pc = "done" /\ t.outcome = "None"
Failed(t) == t.pc = "done" /\ t.outcome \notin {"", "None"}

\* The changes of state a task may make.
Lifecycle ==
    {<<"queued", "makedirs">>, <<"makedirs", "get">>, <<"makedirs", "done">>,
     <<"get", "get">>, <<"get", "write">>, <<"get", "done">>,
     <<"write", "done">>}

\* C26: each file's task goes Pending, Downloading, retries, then Downloaded
\* or Failed; the two ends are final (no attempt, write or outcome follows),
\* a task ends in exactly one of them, and a step of one file's task leaves
\* every other file's task as it was.
C26_TaskLifecycle ==
    /\ [](\A i \in 1..Len(task) :
             /\ task[i].pc \in {"queued", "done"} \cup Downloading
             /\ task[i].pc = "done" <=> task[i].outcome # ""
             /\ task[i].pc = "done" => (Downloaded(task[i]) # Failed(task[i])))
    /\ [][\A i \in 1..Len(task) :
             /\ task[i].pc = "done" => (task'[i] = task[i] /\ fs'[i] = fs[i])
             /\ task'[i] # task[i]
                    => /\ <<task[i].pc, task'[i].pc>> \in Lifecycle
                       /\ \A j \in 1..Len(task) : j # i => task'[j] = task[j]
             /\ (task'[i] # task[i] /\ task[i].pc = "get" /\ task'[i].pc = "get")
                    => task'[i].retries = task[i].retries - 1]_vars

\* One file was downloaded and another failed after its retries, each
\* through its own steps.
C26_Witness ==
    \E i, j \in 1..Len(task) :
        /\ Downloaded(task[i])
        /\ task[i].attempts = 1
        /\ Failed(task[j])
        /\ task[j].attempts = DefaultRetries + 1

\* The directory part of a path: up to its last "/"; none without a "/".
RECURSIVE DirOf(_)
DirOf(p) ==
    IF p = <<>> THEN <<>>
    ELSE IF p[Len(p)] = SLASH THEN p
    ELSE DirOf(SubSeq(p, 1, Len(p) - 1))

\* A path with each run of "/" written as one "/", as the file system
\* resolves it.
RECURSIVE Squeeze(_)
Squeeze(p) ==
    IF Len(p) < 2 THEN p
    ELSE IF p[1] = SLASH /\ p[2] = SLASH THEN Squeeze(Tail(p))
    ELSE <<p[1]>> \o Squeeze(Tail(p))

\* C27: the folder the task ensured is the directory that holds the path
\* it is about to write.
C27_EnsuredHoldsPath ==
    pc = "fd_write" => Squeeze(made) = Squeeze(DirOf(path))

\* The failures of the two kinds the loop caught so far.
LoopFailures == {"URLError", "zlib.error"}
Caught(kind) == Cardinality({k \in 1..Len(failures) : failures[k] = kind})

\* C28: in the retry loop a failed inflate is handled as a failed GET is:
\* either takes one retry and is followed by a fresh GET, and the failure
\* that finds no retry left, of whichever kind, after retries of whichever
\* kinds, ends the task with that error.
C28_InflateFailureAsGetFailure ==
    /\ [](ProjectNameOk(man) =>
             /\ \A k \in 1..Len(failures) : failures[k] \in LoopFailures
             /\ Caught("URLError") + Caught("zlib.error")
                    = (retries0 - retries)
                      + (IF outcome \in LoopFailures THEN 1 ELSE 0)
             /\ outcome \in LoopFailures
                    <=> Caught("URLError") + Caught("zlib.error") = retries0 + 1
             /\ outcome \in LoopFailures
                    => (pc = "fd_done" /\ attempts = retries0 + 1 /\ ~Opened))
    /\ [][(ProjectNameOk(man) /\ failures' # failures)
             => /\ pc \in {"fd_get", "fd_inflate"}
                /\ failures'[Len(failures')]
                       = (IF pc = "fd_get" THEN "URLError" ELSE "zlib.error")
                /\ IF retries = 0
                   THEN /\ pc' = "fd_done"
                        /\ outcome' = failures'[Len(failures')]
                        /\ retries' = retries
                   ELSE /\ pc' = "fd_get"
                        /\ retries' = retries - 1
                        /\ outcome' = outcome]_vars

\* A task ended with an error after failures of both kinds that used up its
\* retries.
C28_Witness ==
    /\ pc = "fd_done"
    /\ outcome \in LoopFailures
    /\ Caught("URLError") > 0
    /\ Caught("zlib.error") > 0
    /\ Len(failures) = retries0 + 1

\* C29: a failure of the folder creation or of the write is not retried:
\* the task ends with the error at that step, whatever retries are left;
\* no GET follows, and none was issued before a folder creation that
\* failed.
C29_OuterFailureNotRetried ==
    /\ [](outcome = "OSError" => pc = "fd_done")
    /\ [][/\ (outcome' = "OSError" /\ outcome # "OSError")
                => /\ pc \in {"fd_makedirs", "fd_write"}
                   /\ pc' = "fd_done"
                   /\ retries' = retries
                   /\ attempts' = attempts
                   /\ failures' = failures
                   /\ pc = "fd_makedirs" => attempts = 0
          /\ outcome = "OSError" => attempts' = attempts]_vars

\* A folder creation failed with retries left; a write failed with retries
\* left.
C29_Witness ==
    /\ pc = "fd_done"
    /\ outcome = "OSError"
    /\ retries > 0
    /\ attempts = 0

C29_WitnessWrite ==
    /\ pc = "fd_done"
    /\ outcome = "OSError"
    /\ retries > 0
    /\ attempts > 0

\* The two tables as the buffer holds them, where it holds all the records
\* its counts announce.
Tables(buf) ==
    LET p0 == 4 + S_HEADER_size
        fo == ReadRecords(buf, p0 + 4, FromLE(BufRead(buf, p0, 4)),
                          S_FOLDER_size, <<>>)
        file_count == FromLE(BufRead(buf, fo.pos, 4))
        fi == ReadRecords(buf, fo.pos + 4, file_count, S_FILE_size, <<>>)
    IN  [ok |-> Len(buf) >= p0 /\ fo.ok /\ fi.ok,
         folders |-> [i \in 1..Len(fo.items) |-> ManFolder(fo.items[i])],
         file_count |-> file_count]

\* Some folder record declares a child index that the table of folder_count
\* folders, of file_count files, does not have.
ReachesOutside(folders, folder_count, file_count) ==
    \E k \in 1..Len(folders) :
        \/ /\ folders[k].folders_count > 0
           /\ folders[k].folders_start + folders[k].folders_count > folder_count
        \/ /\ folders[k].files_count > 0
           /\ folders[k].files_start + folders[k].files_count > file_count

\* C30: a buffer one of whose folder records declares a child range that
\* reaches outside the folder table or the file table is not decoded:
\* Man.read fails; so in every Man returned every parent entry and every
\* declared child lies inside the tables.
C30_RangesInsideTables ==
    /\ pc \in {"ready", "failed"}
           => \E t \in {Tables(buffer)} :
                  (t.ok /\ ReachesOutside(t.folders, Len(t.folders), t.file_count))
                      => (pc = "failed" /\ error # "" /\ man = NoMan)
    /\ pc = "ready"
           => /\ ~ReachesOutside(man.folders, Len(man.folders), Len(man.files))
              /\ Len(man.folder_parents) = Len(man.folders)
              /\ Len(man.file_parents) = Len(man.files)
              /\ \A k \in 1..Len(man.folder_parents) :
                     man.folder_parents[k] \in {None} \cup FolderIdx
              /\ \A k \in 1..Len(man.file_parents) :
                     man.file_parents[k] \in {None} \cup FolderIdx

\* A buffer whose tables are whole and whose last folder declares a file
\* beyond the file table was refused at the parent links.
C30_Witness ==
    /\ pc = "failed"
    /\ error = "IndexError"
    /\ stage = "parents"
    /\ Tables(buffer).ok
    /\ LET fs0 == Tables(buffer).folders
       IN  /\ Len(fs0) > 1
           /\ fs0[Len(fs0)].files_count > 0
           /\ fs0[Len(fs0)].files_start + fs0[Len(fs0)].files_count
                  > Tables(buffer).file_count
           /\ ~ReachesOutside(SubSeq(fs0, 1, Len(fs0) - 1), Len(fs0),
                              Tables(buffer).file_count)

====
